---- MODULE Spec2Model ----
(***************************************************************************)
(* A model of syn's literal module (src/lit.rs): the classifier Lit::new,  *)
(* the parser entry points (impl Synom for Lit and the per-kind parsers),  *)
(* the printer (ToTokens), the accessors LitInt::value / suffix,           *)
(* LitFloat::suffix, LitStr::value, and the extra-traits equality.         *)
(*                                                                         *)
(* A token text is a sequence of bytes, each byte a one-character string;  *)
(* bytes without a printable form carry a name (NUL, LF, CR, TAB).         *)
(* A u64 is four 16-bit limbs, least significant first, so that the        *)
(* checked arithmetic of parse_lit_int overflows exactly at 2^64.          *)
(* A panic of the code is a result tagged "Panic"; the action that meets   *)
(* one sets `panicked` and the computation ends there.                     *)
(***************************************************************************)
EXTENDS Integers, Sequences, FiniteSets, TLC

VARIABLES input, pos, res, lits, tokens, ans, panicked

vars == <<input, pos, res, lits, tokens, ans, panicked>>

-----------------------------------------------------------------------------
(* Bytes *)

NUL == "NUL"

LF == "\n"

CR == "\r"

TAB == "\t"

QUOTE == "\""

APOS == "'"

BSLASH == "\\"

\* The byte value of each character the model's texts are written with.
Ord ==
    ("0" :> 48) @@ ("1" :> 49) @@ ("5" :> 53) @@ ("7" :> 55) @@ ("8" :> 56)
    @@ ("A" :> 65) @@ ("F" :> 70)
    @@ ("a" :> 97) @@ ("b" :> 98) @@ ("e" :> 101) @@ ("f" :> 102) @@ ("g" :> 103)
    @@ ("n" :> 110) @@ ("q" :> 113) @@ ("r" :> 114) @@ ("u" :> 117) @@ ("x" :> 120)
    @@ (TAB :> 9) @@ (LF :> 10) @@ (CR :> 13) @@ (" " :> 32)
    @@ (QUOTE :> 34) @@ ("#" :> 35) @@ (APOS :> 39) @@ (BSLASH :> 92)
    @@ ("-" :> 45) @@ ("." :> 46) @@ ("9" :> 57) @@ ("_" :> 95) @@ ("d" :> 100)
    @@ ("{" :> 123) @@ ("}" :> 125)

\* b'0'...b'9', b'a'...b'f' and b'A'...b'F', each in byte order.
DecDigits == <<"0", "1", "2", "3", "4", "5", "6", "7", "8", "9">>

LowerHex == <<"a", "b", "c", "d", "e", "f">>

UpperHex == <<"A", "B", "C", "D", "E", "F">>

\* b is in the byte range that `range` lists.
InRange(b, range) == \E i \in 1..Len(range) : range[i] = b

\* b - first, for b in the byte range that `range` lists from `first`.
Offset(b, range) == (CHOOSE i \in 1..Len(range) : range[i] = b) - 1

\* value::byte: the byte at offset idx (from 0), or b'\0' past the end.
byte(s, idx) == IF idx < Len(s) THEN s[idx + 1] ELSE NUL

\* &s[n..]
SliceFrom(s, n) == SubSeq(s, n + 1, Len(s))

contains(s, c) == \E i \in 1..Len(s) : s[i] = c

starts_with(s, p) == Len(p) <= Len(s) /\ SubSeq(s, 1, Len(p)) = p

ends_with(s, p) == Len(p) <= Len(s) /\ SubSeq(s, Len(s) - Len(p) + 1, Len(s)) = p

Panic(m) == [tag |-> "Panic", msg |-> m]

None == [tag |-> "None"]

-----------------------------------------------------------------------------
(* u64 *)

Limb == 65536

Zero64 == <<0, 0, 0, 0>>

\* The arithmetic that wraps at 2^64 where the checked one gives None.
Carried_wrapping(p1, q2, q3, q4) ==
    LET p2 == q2 + (p1 \div Limb)
        p3 == q3 + (p2 \div Limb)
        p4 == q4 + (p3 \div Limb)
    IN  [tag |-> "Some", value |-> <<p1 % Limb, p2 % Limb, p3 % Limb, p4 % Limb>>]

\* The four limbs of a sum of limb-wise terms, or no value when a 65th bit is set.
Carried(p1, q2, q3, q4) ==
    LET p2 == q2 + (p1 \div Limb)
        p3 == q3 + (p2 \div Limb)
        p4 == q4 + (p3 \div Limb)
    IN  IF p4 \div Limb > 0 THEN None
        ELSE [tag |-> "Some", value |-> <<p1 % Limb, p2 % Limb, p3 % Limb, p4 % Limb>>]

\* u64::checked_mul by a small factor.
checked_mul(v, m) == Carried(v[1] * m, v[2] * m, v[3] * m, v[4] * m)

\* u64::checked_add of a small addend.
checked_add(v, d) == Carried(v[1] + d, v[2], v[3], v[4])

-----------------------------------------------------------------------------
(* value::parse_lit_int *)

\* The digit a byte stands for in the match of parse_lit_int, -1 for a byte
\* that is no digit of the base.
int_digit(b, base) ==
    IF InRange(b, DecDigits) THEN Offset(b, DecDigits)
    ELSE IF InRange(b, LowerHex) /\ base > 10 THEN 10 + Offset(b, LowerHex)
    ELSE IF InRange(b, UpperHex) /\ base > 10 THEN 10 + Offset(b, UpperHex)
    ELSE -1

\* value.checked_mul(base), then checked_add(digit).
mul_add(value, base, digit) ==
    IF checked_mul(value, base) = None THEN None
    ELSE checked_add(checked_mul(value, base).value, digit)

\* The accumulator while the loop runs, its result once it has returned.
Running(value) == [tag |-> "Run", value |-> value]

run_on(r) == IF r = None THEN None ELSE Running(r.value)

\* A round that takes '_' for the end of the number.
int_round_stop(st, b, base, digit) ==
    IF st.tag # "Run" THEN st
    ELSE IF digit >= 0
    THEN IF digit >= base THEN Panic("Unexpected digit out of base range")
         ELSE run_on(mul_add(st.value, base, digit))
    ELSE IF b = "." /\ base = 10 THEN None
    ELSE IF b \in {"e", "E"} /\ base = 10 THEN None
    ELSE [tag |-> "Some", value |-> st.value]

\* One round of the loop of parse_lit_int on the byte b and the digit it
\* stands for; a loop that has returned stays as it is.
int_round(st, b, base, digit) ==
    IF st.tag # "Run" THEN st
    ELSE IF digit >= 0
    THEN IF digit >= base THEN Panic("Unexpected digit out of base range")
         ELSE run_on(mul_add(st.value, base, digit))
    ELSE IF b = "_" THEN st
    ELSE IF b = "." /\ base = 10 THEN None
    ELSE IF b \in {"e", "E"} /\ base = 10 THEN None
    ELSE [tag |-> "Some", value |-> st.value]

RECURSIVE int_rounds(_, _, _, _, _)
\* The rounds on the bytes at the offsets lo..hi of s, one after the other
\* (the range is halved only to keep the evaluation shallow).
int_rounds(s, lo, hi, base, st) ==
    IF st.tag # "Run" THEN st
    ELSE IF lo = hi
    THEN int_round(st, byte(s, lo), base, int_digit(byte(s, lo), base))
    ELSE int_rounds(s, (lo + hi) \div 2 + 1, hi, base,
                    int_rounds(s, lo, (lo + hi) \div 2, base, st))

\* The loop of parse_lit_int on the text s with the accumulator at value:
\* the last round is on the b'\0' that byte() yields at the end of the text.
int_loop(s, base, value) == int_rounds(s, 0, Len(s), base, Running(value))

\* The base the first two bytes choose, 0 for a text no digit begins.
int_base(b0, b1) ==
    IF b0 = "0" /\ b1 = "x" THEN 16
    ELSE IF b0 = "0" /\ b1 = "o" THEN 8
    ELSE IF b0 = "0" /\ b1 = "b" THEN 2
    ELSE IF InRange(b0, DecDigits) THEN 10
    ELSE 0

int_from(s, base) ==
    IF base = 0 THEN Panic("unreachable")
    ELSE int_loop(IF base = 10 THEN s ELSE SliceFrom(s, 2), base, Zero64)

parse_lit_int(s) == int_from(s, int_base(byte(s, 0), byte(s, 1)))

-----------------------------------------------------------------------------
(* Lit::new *)

\* number_is_float without the test of the 0x prefix.
number_is_float_hex(value) ==
    IF contains(value, ".") THEN TRUE
    ELSE IF ends_with(value, <<"s", "i", "z", "e">>) THEN FALSE
    ELSE contains(value, "e") \/ contains(value, "E")

number_is_float(value) ==
    IF contains(value, ".") THEN TRUE
    ELSE IF starts_with(value, <<"0", "x">>) \/ ends_with(value, <<"s", "i", "z", "e">>)
         THEN FALSE
    ELSE contains(value, "e") \/ contains(value, "E")

\* Option::is_some, a panic passing through.
is_some(r) == IF r.tag = "Panic" THEN r ELSE [tag |-> "Val", val |-> r.tag = "Some"]

\* A boolean, or the panic of parse_lit_int.
number_is_int(value) ==
    IF number_is_float(value) THEN [tag |-> "Val", val |-> FALSE]
    ELSE is_some(parse_lit_int(value))

\* A literal of every variant but Bool: the token and the span.
TokenLit(k, token, span) == [kind |-> k, token |-> token, span |-> span]

LitBool(value, span) == [kind |-> "Bool", value |-> value, span |-> span]

Made(l) == [tag |-> "Lit", lit |-> l]

TRUE_TEXT == <<"t", "r", "u", "e">>

FALSE_TEXT == <<"f", "a", "l", "s", "e">>

\* The arm of the numbers with every number that is not a float Verbatim.
new_number_verbatim(token, span, isint) ==
    IF isint.tag = "Panic" THEN isint
    ELSE IF number_is_float(token) THEN Made(TokenLit("Float", token, span))
    ELSE Made(TokenLit("Verbatim", token, span))

\* The arm of Lit::new for a text that a digit begins.
new_number(token, span, isint) ==
    IF isint.tag = "Panic" THEN isint
    ELSE IF isint.val THEN Made(TokenLit("Int", token, span))
    ELSE IF number_is_float(token) THEN Made(TokenLit("Float", token, span))
    ELSE Made(TokenLit("Verbatim", token, span))

\* The match of Lit::new without the raw byte strings.
new_match_cooked(token, span, b0, b1) ==
    IF b0 \in {QUOTE, "r"} THEN Made(TokenLit("Str", token, span))
    ELSE IF b0 = "b" /\ b1 = QUOTE THEN Made(TokenLit("ByteStr", token, span))
    ELSE IF b0 = "b" /\ b1 = APOS THEN Made(TokenLit("Byte", token, span))
    ELSE IF b0 = "b" THEN Panic("Unrecognized literal")
    ELSE IF b0 = APOS THEN Made(TokenLit("Char", token, span))
    ELSE IF InRange(b0, DecDigits) THEN new_number(token, span, number_is_int(token))
    ELSE IF token = TRUE_TEXT \/ token = FALSE_TEXT
         THEN Made(LitBool(token = TRUE_TEXT, span))
    ELSE Panic("Unrecognized literal")

\* The match of Lit::new on the first two bytes of the text.
new_match(token, span, b0, b1) ==
    IF b0 \in {QUOTE, "r"} THEN Made(TokenLit("Str", token, span))
    ELSE IF b0 = "b" /\ b1 \in {QUOTE, "r"} THEN Made(TokenLit("ByteStr", token, span))
    ELSE IF b0 = "b" /\ b1 = APOS THEN Made(TokenLit("Byte", token, span))
    ELSE IF b0 = "b" THEN Panic("Unrecognized literal")
    ELSE IF b0 = APOS THEN Made(TokenLit("Char", token, span))
    ELSE IF InRange(b0, DecDigits) THEN new_number(token, span, number_is_int(token))
    ELSE IF token = TRUE_TEXT \/ token = FALSE_TEXT
         THEN Made(LitBool(token = TRUE_TEXT, span))
    ELSE Panic("Unrecognized literal")

Lit_new(token, span) == new_match(token, span, byte(token, 0), byte(token, 1))

-----------------------------------------------------------------------------
(* Accessors of the numeric literals *)

IntSuffixes ==
    << <<<<"i", "8">>, "I8">>,
       <<<<"i", "1", "6">>, "I16">>,
       <<<<"i", "3", "2">>, "I32">>,
       <<<<"i", "6", "4">>, "I64">>,
       <<<<"i", "1", "2", "8">>, "I128">>,
       <<<<"i", "s", "i", "z", "e">>, "Isize">>,
       <<<<"u", "8">>, "U8">>,
       <<<<"u", "1", "6">>, "U16">>,
       <<<<"u", "3", "2">>, "U32">>,
       <<<<"u", "6", "4">>, "U64">>,
       <<<<"u", "1", "2", "8">>, "U128">>,
       <<<<"u", "s", "i", "z", "e">>, "Usize">> >>

FloatSuffixes ==
    << <<<<"f", "3", "2">>, "F32">>,
       <<<<"f", "6", "4">>, "F64">> >>

RECURSIVE first_suffix(_, _, _)
\* for (s, suffix) in table { if value.ends_with(s) { return suffix; } } None
first_suffix(value, table, i) ==
    IF i > Len(table) THEN "None"
    ELSE IF ends_with(value, table[i][1]) THEN table[i][2]
    ELSE first_suffix(value, table, i + 1)

\* suffix() without the first row of its table.
LitInt_suffix_short(l) == first_suffix(l.token, IntSuffixes, 2)

LitInt_suffix(l) == first_suffix(l.token, IntSuffixes, 1)

LitFloat_suffix(l) == first_suffix(l.token, FloatSuffixes, 1)

\* Option::unwrap, a panic passing through.
unwrap(r) ==
    IF r.tag = "None" THEN Panic("called Option::unwrap() on a None value")
    ELSE IF r.tag = "Panic" THEN r
    ELSE [tag |-> "Val", val |-> r.value]

LitInt_value(l) == unwrap(parse_lit_int(l.token))

-----------------------------------------------------------------------------
(* value::parse_lit_str *)

\* The match of backslash_x and backslash_u on a hex digit, -1 for any other byte.
HexDigit(b) ==
    IF InRange(b, DecDigits) THEN Offset(b, DecDigits)
    ELSE IF InRange(b, LowerHex) THEN 10 + Offset(b, LowerHex)
    ELSE IF InRange(b, UpperHex) THEN 10 + Offset(b, UpperHex)
    ELSE -1

\* The byte of \x with its first digit weighed as a decimal one.
x_value_decimal(s, d0, d1) ==
    IF d0 < 0 \/ d1 < 0 THEN Panic("unexpected non-hex character after \\x")
    ELSE [tag |-> "Val", val |-> 10 * d0 + d1, rest |-> SliceFrom(s, 2)]

x_value(s, d0, d1) ==
    IF d0 < 0 \/ d1 < 0 THEN Panic("unexpected non-hex character after \\x")
    ELSE [tag |-> "Val", val |-> 16 * d0 + d1, rest |-> SliceFrom(s, 2)]

\* (byte, rest), or the panic on a non-hex character.
backslash_x(s) == x_value(s, HexDigit(byte(s, 0)), HexDigit(byte(s, 1)))

\* char::from_u32
IsScalar(n) == n <= 1114111 /\ ~(55296 <= n /\ n <= 57343)

RECURSIVE u_loop(_, _, _)

u_round(s, ch, n, b, d) ==
    IF d >= 0 THEN u_loop(SliceFrom(s, 1), ch * 16 + d, n - 1)
    ELSE IF b = "}" THEN [tag |-> "Val", val |-> ch, rest |-> s]
    ELSE Panic("unexpected non-hex character after \\u")

\* for _ in 0..6: n is the number of rounds left.
u_loop(s, ch, n) ==
    IF n = 0 THEN [tag |-> "Val", val |-> ch, rest |-> s]
    ELSE u_round(s, ch, n, byte(s, 0), HexDigit(byte(s, 0)))

\* What follows the loop of backslash_u.
u_close(r) ==
    IF r.tag = "Panic" THEN r
    ELSE IF byte(r.rest, 0) # "}" THEN Panic("assertion failed: byte(s, 0) == b'}'")
    ELSE IF IsScalar(r.val) THEN [tag |-> "Val", val |-> r.val, rest |-> SliceFrom(r.rest, 1)]
    ELSE Panic("character code is not a valid unicode character")

backslash_u(s) ==
    IF byte(s, 0) # "{" THEN Panic("expected { after \\u")
    ELSE u_close(u_loop(SliceFrom(s, 1), 0, 6))

\* char::is_whitespace, on the characters of the model.
is_whitespace(c) == c \in {" ", TAB, LF, CR}

\* A continuation that drops no white space.
skip_none(s) == s

RECURSIVE skip_whitespace(_)
\* The inner loop of a line continuation: the text from the first
\* character that is not white space (next_chr is '\0' at the end).
skip_whitespace(s) ==
    IF s # <<>> /\ is_whitespace(s[1]) THEN skip_whitespace(SliceFrom(s, 1)) ELSE s

SimpleEscape ==
    ("n" :> 10) @@ ("r" :> 13) @@ ("t" :> 9) @@ (BSLASH :> 92) @@ ("0" :> 0)
    @@ (APOS :> 39) @@ (QUOTE :> 34)

RECURSIVE cooked_loop(_, _)
\* The \x arm without the check of the byte.
cooked_x_unchecked(out, r) ==
    IF r.tag = "Panic" THEN r ELSE cooked_loop(r.rest, Append(out, r.val))

\* The \x arm: the byte must not exceed 0x80.
cooked_x(out, r) ==
    IF r.tag = "Panic" THEN r
    ELSE IF r.val > 128 THEN Panic("Invalid \\x byte in string literal")
    ELSE cooked_loop(r.rest, Append(out, r.val))

\* The \u arm.
cooked_u(out, r) ==
    IF r.tag = "Panic" THEN r ELSE cooked_loop(r.rest, Append(out, r.val))

\* The arm of a backslash: e is the byte after it, t the text after both.
cooked_escape(s, out, e, t) ==
    IF Len(s) < 2 THEN Panic("slice index out of range")
    ELSE IF e = "x" THEN cooked_x(out, backslash_x(t))
    ELSE IF e = "u" THEN cooked_u(out, backslash_u(t))
    ELSE IF e \in DOMAIN SimpleEscape THEN cooked_loop(t, Append(out, SimpleEscape[e]))
    ELSE IF e \in {CR, LF} THEN cooked_loop(skip_whitespace(t), out)
    ELSE Panic("unexpected byte after \\ character in byte literal")

\* One round of 'outer on the byte b, and the assertion that follows the loop.
cooked_round(s, out, b) ==
    IF b = QUOTE
    THEN IF s = <<QUOTE>> THEN [tag |-> "Val", val |-> out]
         ELSE Panic("assertion failed: s == \"\\\"\"")
    ELSE IF b = BSLASH THEN cooked_escape(s, out, byte(s, 1), SliceFrom(s, 2))
    ELSE IF b = CR
    THEN IF byte(s, 1) # LF THEN Panic("Bare CR not allowed in string")
         ELSE cooked_loop(SliceFrom(s, 2), Append(out, 10))
    ELSE IF s = <<>> THEN Panic("slice index out of range")
    ELSE cooked_loop(SliceFrom(s, 1), Append(out, Ord[b]))

cooked_loop(s, out) == cooked_round(s, out, byte(s, 0))

parse_lit_str_cooked(s) ==
    IF byte(s, 0) # QUOTE THEN Panic("assertion failed: byte(s, 0) == b'\"'")
    ELSE cooked_loop(SliceFrom(s, 1), <<>>)

RECURSIVE count_pounds(_, _)
\* while byte(s, pounds) == b'#' { pounds += 1; }
count_pounds(s, pounds) ==
    IF byte(s, pounds) = "#" THEN count_pounds(s, pounds + 1) ELSE pounds

\* The raw decoder without the assertion on the closing quote.
raw_body_open(s, pounds) ==
    IF byte(s, pounds) # QUOTE THEN Panic("assertion failed: byte(s, pounds) == b'\"'")
    ELSE IF \E i \in (Len(s) - pounds + 1)..Len(s) : s[i] # "#"
    THEN Panic("assertion failed: end == b'#'")
    ELSE IF pounds + 1 > Len(s) - pounds - 1 THEN Panic("slice index starts after its end")
    ELSE [tag |-> "Val",
          val |-> [i \in 1..(Len(s) - 2 * pounds - 2) |-> Ord[s[pounds + 1 + i]]]]

\* parse_lit_str_raw after the r: s is the text that follows it.
raw_body(s, pounds) ==
    IF byte(s, pounds) # QUOTE THEN Panic("assertion failed: byte(s, pounds) == b'\"'")
    ELSE IF byte(s, Len(s) - pounds - 1) # QUOTE
    THEN Panic("assertion failed: byte(s, s.len() - pounds - 1) == b'\"'")
    ELSE IF \E i \in (Len(s) - pounds + 1)..Len(s) : s[i] # "#"
    THEN Panic("assertion failed: end == b'#'")
    ELSE IF pounds + 1 > Len(s) - pounds - 1 THEN Panic("slice index starts after its end")
    ELSE [tag |-> "Val",
          val |-> [i \in 1..(Len(s) - 2 * pounds - 2) |-> Ord[s[pounds + 1 + i]]]]

parse_lit_str_raw(s) ==
    IF byte(s, 0) # "r" THEN Panic("assertion failed: byte(s, 0) == b'r'")
    ELSE raw_body(SliceFrom(s, 1), count_pounds(SliceFrom(s, 1), 0))

parse_lit_str(s) ==
    IF byte(s, 0) = QUOTE THEN parse_lit_str_cooked(s)
    ELSE IF byte(s, 0) = "r" THEN parse_lit_str_raw(s)
    ELSE Panic("unreachable")

LitStr_value(l) == parse_lit_str(l.token)

-----------------------------------------------------------------------------
(* value::parse_lit_byte_str, parse_lit_byte, parse_lit_char *)

RECURSIVE bytes_loop(_, _)

\* The \x arm of a byte string: every byte is taken.
bytes_x(out, r) ==
    IF r.tag = "Panic" THEN r ELSE bytes_loop(r.rest, Append(out, r.val))

\* The arm of a backslash: e is the byte after it, t the text after both.
bytes_escape(s, out, e, t) ==
    IF Len(s) < 2 THEN Panic("slice index out of range")
    ELSE IF e = "x" THEN bytes_x(out, backslash_x(t))
    ELSE IF e \in DOMAIN SimpleEscape THEN bytes_loop(t, Append(out, SimpleEscape[e]))
    ELSE IF e \in {CR, LF} THEN bytes_loop(skip_whitespace(t), out)
    ELSE Panic("unexpected byte after \\ character in byte literal")

\* One round of 'outer on the byte b, and the assertion that follows the loop.
bytes_round(s, out, b) ==
    IF b = QUOTE
    THEN IF s = <<QUOTE>> THEN [tag |-> "Val", val |-> out]
         ELSE Panic("assertion failed: s == b\"\\\"\"")
    ELSE IF b = BSLASH THEN bytes_escape(s, out, byte(s, 1), SliceFrom(s, 2))
    ELSE IF b = CR
    THEN IF byte(s, 1) # LF THEN Panic("Bare CR not allowed in string")
         ELSE bytes_loop(SliceFrom(s, 2), Append(out, 10))
    ELSE IF s = <<>> THEN Panic("slice index out of range")
    ELSE bytes_loop(SliceFrom(s, 1), Append(out, Ord[b]))

bytes_loop(s, out) == bytes_round(s, out, byte(s, 0))

parse_lit_byte_str_cooked(s) ==
    IF byte(s, 0) # "b" THEN Panic("assertion failed: byte(s, 0) == b'b'")
    ELSE IF byte(s, 1) # QUOTE THEN Panic("assertion failed: byte(s, 1) == b'\"'")
    ELSE bytes_loop(SliceFrom(s, 2), <<>>)

\* parse_lit_str_raw(&s[1..]).into_bytes()
parse_lit_byte_str_raw(s) ==
    IF byte(s, 0) # "b" THEN Panic("assertion failed: byte(s, 0) == b'b'")
    ELSE parse_lit_str_raw(SliceFrom(s, 1))

parse_lit_byte_str(s) ==
    IF byte(s, 0) # "b" THEN Panic("assertion failed: byte(s, 0) == b'b'")
    ELSE IF byte(s, 1) = QUOTE THEN parse_lit_byte_str_cooked(s)
    ELSE IF byte(s, 1) = "r" THEN parse_lit_byte_str_raw(s)
    ELSE Panic("unreachable")

LitByteStr_value(l) == parse_lit_byte_str(l.token)

\* assert_eq!(byte(s, 0), b'\''): only the byte after the value is looked at.
byte_close(r) ==
    IF r.tag = "Panic" THEN r
    ELSE IF byte(r.rest, 0) # APOS THEN Panic("assertion failed: byte(s, 0) == b'\\''")
    ELSE [tag |-> "Val", val |-> r.val]

byte_escape(s, e, t) ==
    IF Len(s) < 2 THEN Panic("slice index out of range")
    ELSE IF e = "x" THEN byte_close(backslash_x(t))
    ELSE IF e \in DOMAIN SimpleEscape
    THEN byte_close([tag |-> "Val", val |-> SimpleEscape[e], rest |-> t])
    ELSE Panic("unexpected byte after \\ character in byte literal")

\* The match of parse_lit_byte on the first byte b0 of the text after b'.
byte_body(s, b0) ==
    IF b0 = BSLASH THEN byte_escape(s, byte(s, 1), SliceFrom(s, 2))
    ELSE IF s = <<>> THEN Panic("slice index out of range")
    ELSE byte_close([tag |-> "Val", val |-> Ord[b0], rest |-> SliceFrom(s, 1)])

parse_lit_byte(s) ==
    IF byte(s, 0) # "b" THEN Panic("assertion failed: byte(s, 0) == b'b'")
    ELSE IF byte(s, 1) # APOS THEN Panic("assertion failed: byte(s, 1) == b'\\''")
    ELSE byte_body(SliceFrom(s, 2), byte(s, 2))

LitByte_value(l) == parse_lit_byte(l.token)

\* assert_eq!(s, "\'"): nothing but the closing quote may follow the value.
char_close(r) ==
    IF r.tag = "Panic" THEN r
    ELSE IF r.rest # <<APOS>> THEN Panic("Expected end of char literal")
    ELSE [tag |-> "Val", val |-> r.val]

\* The \x arm of a character: the byte must not exceed 0x80.
char_x(r) ==
    IF r.tag = "Panic" THEN r
    ELSE IF r.val > 128 THEN Panic("Invalid \\x byte in string literal")
    ELSE r

char_escape(s, e, t) ==
    IF Len(s) < 2 THEN Panic("slice index out of range")
    ELSE IF e = "x" THEN char_close(char_x(backslash_x(t)))
    ELSE IF e = "u" THEN char_close(backslash_u(t))
    ELSE IF e \in DOMAIN SimpleEscape
    THEN char_close([tag |-> "Val", val |-> SimpleEscape[e], rest |-> t])
    ELSE Panic("unexpected byte after \\ character in byte literal")

\* The match of parse_lit_char on the first byte b0 of the text after '.
char_body(s, b0) ==
    IF b0 = BSLASH THEN char_escape(s, byte(s, 1), SliceFrom(s, 2))
    ELSE IF s = <<>> THEN Panic("slice index out of range")
    ELSE char_close([tag |-> "Val", val |-> Ord[b0], rest |-> SliceFrom(s, 1)])

parse_lit_char(s) ==
    IF byte(s, 0) # APOS THEN Panic("assertion failed: byte(s, 0) == b'\\''")
    ELSE char_body(SliceFrom(s, 1), byte(s, 1))

LitChar_value(l) == parse_lit_char(l.token)

-----------------------------------------------------------------------------
(* parsing: the cursor is an offset into the token buffer *)

Token(k, text, span) == [kind |-> k, text |-> text, span |-> span]

\* Cursor::literal
literal(buf, c) ==
    IF c < Len(buf) /\ buf[c + 1].kind = "Literal"
    THEN [tag |-> "Some", span |-> buf[c + 1].span, lit |-> buf[c + 1].text, rest |-> c + 1]
    ELSE None

\* Cursor::term
term(buf, c) ==
    IF c < Len(buf) /\ buf[c + 1].kind = "Term"
    THEN [tag |-> "Some", span |-> buf[c + 1].span, term |-> buf[c + 1].text, rest |-> c + 1]
    ELSE None

parse_error == [tag |-> "Err"]

Ok(l, rest) == [tag |-> "Ok", lit |-> l, rest |-> rest]

\* Ok((Lit::new(lit, span), rest)), unless Lit::new panics.
ok_new(r, rest) == IF r.tag = "Panic" THEN r ELSE Ok(r.lit, rest)

\* The match of the parser with every word but true taken for false.
parse_match_words(l, t) ==
    IF l.tag = "Some" THEN ok_new(Lit_new(l.lit, l.span), l.rest)
    ELSE IF t.tag = "Some" THEN Ok(LitBool(t.term = TRUE_TEXT, t.span), t.rest)
    ELSE parse_error

\* The match of <Lit as Synom>::parse on the two probes of the cursor.
parse_match(l, t) ==
    IF l.tag = "Some" THEN ok_new(Lit_new(l.lit, l.span), l.rest)
    ELSE IF t.tag = "Some"
    THEN IF t.term = TRUE_TEXT THEN Ok(LitBool(TRUE, t.span), t.rest)
         ELSE IF t.term = FALSE_TEXT THEN Ok(LitBool(FALSE, t.span), t.rest)
         ELSE parse_error
    ELSE parse_error

\* <Lit as Synom>::parse
Lit_parse(buf, c) == parse_match(literal(buf, c), term(buf, c))

\* The variants that have a parser of their own (there is none for Verbatim).
ParserKinds == {"Str", "ByteStr", "Byte", "Char", "Int", "Float", "Bool"}

\* switch!(.., Lit::K(lit) => value!(lit) | _ => reject!())
switch(k, r) == IF r.tag = "Ok" /\ r.lit.kind # k THEN parse_error ELSE r

\* The parser of one variant, or of Lit for k = "Lit".
Parser(k, buf, c) ==
    IF k = "Lit" THEN Lit_parse(buf, c) ELSE switch(k, Lit_parse(buf, c))

-----------------------------------------------------------------------------
(* printing *)

BoolText(v) == IF v THEN TRUE_TEXT ELSE FALSE_TEXT

\* to_tokens with the Bool literal emitted as a literal token.
to_tokens_literal(l) ==
    Token("Literal", IF l.kind = "Bool" THEN BoolText(l.value) ELSE l.token, l.span)

\* The token tree each to_tokens appends.
to_tokens(l) ==
    IF l.kind = "Bool"
    THEN Token("Term", BoolText(l.value), l.span)
    ELSE Token("Literal", l.token, l.span)

-----------------------------------------------------------------------------
(* extra-traits *)

\* A key of the comparison that takes the span in.
Lit_key_spanned(l) == IF l.kind = "Bool" THEN BoolText(l.value) ELSE <<l.token, l.span>>

\* What eq compares and hash feeds to the hasher: $field.to_string().
Lit_key(l) == IF l.kind = "Bool" THEN BoolText(l.value) ELSE l.token

Lit_eq(a, b) == Lit_key(a) = Lit_key(b)

-----------------------------------------------------------------------------
(* The token texts the tokenizer hands over *)

MaxLen == 2

MaxBody == 2

SeqsUpTo(A, n) == UNION {[1..k -> A] : k \in 0..n}

Repeat(c, n) == [i \in 1..n |-> c]

\* Every short text over the bytes that decide the kind of a literal.
ShapeAlphabet == {QUOTE, APOS, "r", "b", "1", "a", "#", "-"}

ShapeTexts == SeqsUpTo(ShapeAlphabet, MaxLen)

\* Numbers: a base prefix, a body and a suffix.
Prefixes == {<<>>, <<"0", "x">>, <<"0", "o">>, <<"0", "b">>}

NumAlphabet == {"1", "9", "f", "e", "_", "."}

ShortBodies == SeqsUpTo(NumAlphabet, MaxBody)

NamedBodies ==
    { <<"0">>, <<"1", "0">>, <<"1", "6">>, <<"2", "5", "5">>, <<"2", "5", "6">>,
      <<"1", "_", "0">>, <<"_", "1", "_", "0">>, <<"1", "2", "8">>, <<"7", "7", "7">>,
      <<"1", "E", "1">>, <<"E">>, <<"1", ".", "0", "e", "1", "0">>, <<"1", "e", "+", "5">> }

IntSuffixTexts == {IntSuffixes[i][1] : i \in 1..Len(IntSuffixes)}

FloatSuffixTexts == {FloatSuffixes[i][1] : i \in 1..Len(FloatSuffixes)}

Suffixes == {<<>>, <<"s", "i", "z", "e">>} \cup IntSuffixTexts \cup FloatSuffixTexts

\* The suffixes that every short body is tried with.
ShortSuffixes ==
    { <<>>, <<"s", "i", "z", "e">>, <<"u", "8">>, <<"i", "1", "2", "8">>,
      <<"i", "s", "i", "z", "e">>, <<"u", "s", "i", "z", "e">>, <<"f", "3", "2">>, <<"f", "6", "4">> }

\* Texts around the 64-bit limit of each base: a prefix, a digit and a run of
\* one digit; and the decimal neighbours of 2^64.
LongShapes ==
    { [prefix |-> <<"0", "x">>, leads |-> {"1", "f"}, fills |-> {"0", "f"}, runs |-> {15, 16}],
      [prefix |-> <<"0", "o">>, leads |-> {"1", "2"}, fills |-> {"0", "7"}, runs |-> {20, 21}],
      [prefix |-> <<"0", "b">>, leads |-> {"1"}, fills |-> {"0", "1"}, runs |-> {63, 64}],
      [prefix |-> <<>>, leads |-> {"1", "2"}, fills |-> {"0", "9"}, runs |-> {18, 19}] }

LongBodies ==
    UNION {{sh.prefix \o <<lead>> \o Repeat(fill, n) :
                lead \in sh.leads, fill \in sh.fills, n \in sh.runs} : sh \in LongShapes}

U64MaxDecHead ==
    <<"1", "8", "4", "4", "6", "7", "4", "4", "0", "7", "3", "7", "0", "9", "5", "5", "1", "6", "1">>

LimitBodies ==
    {pre \o U64MaxDecHead \o mid \o <<last>> :
        pre \in {<<>>, <<"0", "0">>}, mid \in {<<>>, <<"_">>},
        last \in {"0", "5", "6", "9"}}

LongSuffixes == {<<>>, <<"u", "8">>, <<"u", "6", "4">>, <<"i", "1", "2", "8">>}

NumTexts ==
    {p \o b \o x : p \in Prefixes, b \in ShortBodies, x \in ShortSuffixes}
    \cup {p \o b \o x : p \in Prefixes, b \in NamedBodies, x \in Suffixes}
    \cup {b \o x : b \in LongBodies, x \in LongSuffixes}
    \cup {b \o x : b \in LimitBodies, x \in LongSuffixes}

\* Cooked strings: an opening quote, a plain start, one piece and an end.
XHex == {"0", "7", "8", "f", "F", "g"}

GoodPieces ==
    { <<>>, <<"a">>, <<CR, LF>>, <<" ", TAB>>,
      <<BSLASH, LF, " ", " ", " ", "b">>, <<BSLASH, CR, LF, TAB, "b">>, <<BSLASH, LF>>,
      <<BSLASH, "u", "{", "a", "}">>, <<BSLASH, "u", "{", "7", "F", "}">>,
      <<BSLASH, "u", "{", "1", "0", "f", "f", "f", "f", "}">>,
      <<BSLASH, "u", "{", "d", "7", "f", "f", "}">> }
    \cup {<<BSLASH, e>> : e \in DOMAIN SimpleEscape}
    \cup {<<BSLASH, "x", h1, h2>> : h1 \in {"0", "7"}, h2 \in XHex \ {"g"}}
    \cup {<<BSLASH, "x", "8", "0">>}

\* Pieces that break the grammar of a cooked string.
BadPieces ==
    { <<BSLASH, "q">>, <<BSLASH, "a">>, <<BSLASH, " ">>, <<BSLASH>>,
      <<BSLASH, "x">>, <<BSLASH, "x", "7">>,
      <<BSLASH, "u">>, <<BSLASH, "u", "a">>, <<BSLASH, "u", "{", "g", "}">>,
      <<BSLASH, "u", "{", "a">>,
      <<BSLASH, "u", "{", "d", "8", "0", "0", "}">>,
      <<BSLASH, "u", "{", "1", "1", "0", "0", "0", "0", "}">>,
      <<BSLASH, "u", "{", "1", "2", "3", "4", "5", "6", "7", "}">>,
      <<CR>>, <<CR, "a">>, <<CR, CR, LF>> }
    \cup {<<BSLASH, "x", h1, h2>> : h1 \in XHex, h2 \in {"g"}}
    \cup {<<BSLASH, "x", "g", h2>> : h2 \in XHex}
    \cup {<<BSLASH, "x", h1, h2>> : h1 \in {"8", "f", "F"}, h2 \in XHex \ {"0", "g"}}
    \cup {<<BSLASH, "x", h1, "0">> : h1 \in {"f", "F"}}

StrStarts == {<<>>, <<"a">>}

StrEnds == {<<QUOTE>>, <<>>, <<QUOTE, "a">>}

CookedTexts ==
    {<<QUOTE>> \o a \o p \o z : a \in StrStarts, p \in GoodPieces \cup BadPieces, z \in StrEnds}

\* Raw strings: r, hash marks, a quoted body, hash marks.
RawBodies == {<<>>, <<"a">>, <<"a", QUOTE, "b">>, <<BSLASH, "n">>, <<QUOTE>>, <<"#">>}

RawTexts ==
    {<<"r">> \o Repeat("#", n) \o open \o b \o close \o Repeat("#", m) :
        n \in 0..2, m \in 0..2, open \in {<<QUOTE>>, <<>>}, close \in {<<QUOTE>>, <<>>},
        b \in RawBodies}

OtherTexts ==
    { TRUE_TEXT, FALSE_TEXT, <<"t", "r", "u">>, <<"t", "r", "u", "e", "e">>,
      <<"f", "a", "l", "s">>, <<"b", QUOTE, "a", QUOTE>>, <<"b", APOS, "f", APOS>>,
      <<APOS, "a", APOS>>, <<"b", "r", QUOTE, "a", QUOTE>>, <<"b", "1">>, <<"b", "t", "r", "u", "e">>,
      <<"-", "1", "i", "8">> }

LiteralTexts == ShapeTexts \cup NumTexts \cup CookedTexts \cup RawTexts \cup OtherTexts

SpanSet == {1, 2}

TermTexts ==
    {TRUE_TEXT, FALSE_TEXT, <<"t", "r", "u">>, <<"s", "e", "l", "f">>, <<"r">>, <<"f", "a", "l", "s", "e", "_">>}

OpTexts == {<<"+">>, <<"-">>}

\* Tokens that come alone in the buffer.
SingleTokens ==
    {Token("Literal", t, 1) : t \in LiteralTexts}
    \cup {Token("Term", t, 1) : t \in TermTexts}
    \cup {Token("Op", t, 1) : t \in OpTexts}

PairTexts ==
    { <<"1", "6">>, <<"0", "x", "1", "0">>, <<"0", "x", "1", "_", "0">>, <<"1", "6", "u", "8">>,
      <<QUOTE, "a", QUOTE>>, <<QUOTE, BSLASH, "x", "6", "1", QUOTE>>, <<"r", QUOTE, "a", QUOTE>>,
      <<"1", ".", "0">>, <<"1", ".", "0", "0">>, TRUE_TEXT, FALSE_TEXT,
      <<"b", APOS, "a", APOS>>, <<APOS, "a", APOS>>,
      <<"1", "8", "4", "4", "6", "7", "4", "4", "0", "7", "3", "7", "0", "9", "5", "5", "1", "6", "1", "6">> }

\* Tokens that come two in a buffer.
PairTokens ==
    {Token("Literal", t, sp) : t \in PairTexts, sp \in SpanSet}
    \cup {Token("Term", t, 2) : t \in {TRUE_TEXT, FALSE_TEXT, <<"s", "e", "l", "f">>}}
    \cup {Token("Op", <<"+">>, 1)}

Buffers ==
    {<<>>} \cup {<<t>> : t \in SingleTokens} \cup {<<t, u>> : t \in PairTokens, u \in PairTokens}

-----------------------------------------------------------------------------
(* The state machine *)

Idle == [tag |-> "Idle"]

NoAnswer == [op |-> "none", of |-> 0, tag |-> "None", val |-> 0]

Answer(op, i, r) ==
    [op |-> op, of |-> i, tag |-> r.tag, val |-> IF r.tag = "Panic" THEN r.msg ELSE r.val]

Init ==
    /\ input \in Buffers
    /\ pos = 0
    /\ res = Idle
    /\ lits = <<>>
    /\ tokens = <<>>
    /\ ans = NoAnswer
    /\ panicked = FALSE

\* A parser runs on the caller's cursor, which it leaves where it is.
Parse(k) ==
    /\ ~panicked
    /\ res.tag \in {"Idle", "Err"}
    /\ res' = Parser(k, input, pos)
    /\ panicked' = (res'.tag = "Panic")
    /\ UNCHANGED <<input, pos, lits, tokens, ans>>

\* The caller takes a parsed literal and goes on from the rest cursor.
Advance ==
    /\ ~panicked
    /\ res.tag = "Ok"
    /\ pos' = res.rest
    /\ lits' = Append(lits, res.lit)
    /\ res' = Idle
    /\ UNCHANGED <<input, tokens, ans, panicked>>

\* to_tokens on the next literal of the tree.
Emit ==
    /\ ~panicked
    /\ Len(tokens) < Len(lits)
    /\ tokens' = Append(tokens, to_tokens(lits[Len(tokens) + 1]))
    /\ UNCHANGED <<input, pos, res, lits, ans, panicked>>

Accessors ==
    { <<"Int", "value">>, <<"Int", "suffix">>, <<"Float", "suffix">>, <<"Str", "value">> }

Access(l, op) ==
    IF l.kind = "Int" /\ op = "value" THEN LitInt_value(l)
    ELSE IF l.kind = "Int" THEN [tag |-> "Val", val |-> LitInt_suffix(l)]
    ELSE IF l.kind = "Float" THEN [tag |-> "Val", val |-> LitFloat_suffix(l)]
    ELSE LitStr_value(l)

\* value() or suffix() on a literal of the tree.
Query(i, op) ==
    /\ ~panicked
    /\ i \in 1..Len(lits)
    /\ <<lits[i].kind, op>> \in Accessors
    /\ ans' = Answer(op, i, Access(lits[i], op))
    /\ panicked' = (ans'.tag = "Panic")
    /\ UNCHANGED <<input, pos, res, lits, tokens>>

\* == and the hash of two literals of one variant.
Compare ==
    /\ ~panicked
    /\ Len(lits) = 2
    /\ lits[1].kind = lits[2].kind
    /\ ans' = [op |-> "eq", of |-> 0, tag |-> "Val",
               val |-> [eq |-> Lit_eq(lits[1], lits[2]),
                        hash |-> <<Lit_key(lits[1]), Lit_key(lits[2])>>]]
    /\ UNCHANGED <<input, pos, res, lits, tokens, panicked>>

Next ==
    \/ \E k \in ParserKinds \cup {"Lit"} : Parse(k)
    \/ Advance
    \/ Emit
    \/ \E i \in 1..2, op \in {"value", "suffix"} : Query(i, op)
    \/ Compare

Spec == Init /\ [][Next]_vars

-----------------------------------------------------------------------------
(* What the properties speak of, stated on the text of a token alone *)

\* The token under the cursor; a result that is not Idle was computed from it.
AtCursor == pos < Len(input)

Cur == input[pos + 1]

DigitLed(t) == t # <<>> /\ t[1] \in {"0", "1", "2", "3", "4", "5", "6", "7", "8", "9"}

HexChars == <<"0", "1", "2", "3", "4", "5", "6", "7", "8", "9", "a", "b", "c", "d", "e", "f">>

\* The number a digit character denotes.
Denotes(c) ==
    IF c \in {"A", "B", "C", "D", "E", "F"}
    THEN 9 + (CHOOSE i \in 1..6 : <<"A", "B", "C", "D", "E", "F">>[i] = c)
    ELSE (CHOOSE i \in 1..16 : HexChars[i] = c) - 1

IsDigitOf(c, base) ==
    /\ c \in {HexChars[i] : i \in 1..16} \cup {"A", "B", "C", "D", "E", "F"}
    /\ Denotes(c) < base

BaseOf(t) ==
    IF Len(t) >= 2 /\ t[1] = "0" /\ t[2] = "x" THEN 16
    ELSE IF Len(t) >= 2 /\ t[1] = "0" /\ t[2] = "o" THEN 8
    ELSE IF Len(t) >= 2 /\ t[1] = "0" /\ t[2] = "b" THEN 2
    ELSE 10

AfterPrefix(t) == IF BaseOf(t) = 10 THEN t ELSE SubSeq(t, 3, Len(t))

\* The length of the longest start of t made of digits of the base and of '_'.
BodyLen(t, base) ==
    IF \A i \in 1..Len(t) : IsDigitOf(t[i], base) \/ t[i] = "_" THEN Len(t)
    ELSE (CHOOSE i \in 1..Len(t) :
            /\ ~(IsDigitOf(t[i], base) \/ t[i] = "_")
            /\ \A j \in 1..(i - 1) : IsDigitOf(t[j], base) \/ t[j] = "_") - 1

BodyOf(t) == SubSeq(AfterPrefix(t), 1, BodyLen(AfterPrefix(t), BaseOf(t)))

SuffixOf(t) ==
    SubSeq(AfterPrefix(t), BodyLen(AfterPrefix(t), BaseOf(t)) + 1, Len(AfterPrefix(t)))

\* An integer token: a digit first, an optional base prefix, digits of the
\* base with '_' between them, and one of the twelve suffixes or none.
IsIntegerToken(t) ==
    /\ DigitLed(t)
    /\ \E i \in 1..Len(BodyOf(t)) : BodyOf(t)[i] # "_"
    /\ SuffixOf(t) \in IntSuffixTexts \cup {<<>>}

\* The places of a body that count: no '_', and not a zero before the first
\* digit that is not zero.
Places(b) ==
    {i \in 1..Len(b) : b[i] # "_" /\ \E j \in 1..i : b[j] \notin {"_", "0"}}

\* The digits of a body as numbers, without the '_' and the leading zeros.
DigitsOf(b) ==
    [k \in 1..Cardinality(Places(b)) |->
        Denotes(b[CHOOSE i \in Places(b) :
                    Cardinality({j \in Places(b) : j < i}) = k - 1])]

\* 2^64 - 1 written in each base.
MaxDigits(base) ==
    IF base = 16 THEN Repeat(15, 16)
    ELSE IF base = 8 THEN <<1>> \o Repeat(7, 21)
    ELSE IF base = 2 THEN Repeat(1, 64)
    ELSE <<1, 8, 4, 4, 6, 7, 4, 4, 0, 7, 3, 7, 0, 9, 5, 5, 1, 6, 1, 5>>

\* a > b for two numbers written in one base without leading zeros.
Greater(a, b) ==
    \/ Len(a) > Len(b)
    \/ /\ Len(a) = Len(b)
       /\ \E i \in 1..Len(a) : a[i] > b[i] /\ \A j \in 1..(i - 1) : a[j] = b[j]

\* The magnitude of an integer token exceeds 2^64 - 1.
Exceeds64(t) == Greater(DigitsOf(BodyOf(t)), MaxDigits(BaseOf(t)))

\* v \div base and v % base for a u64 v.
DivMod(v, base) ==
    LET c4 == v[4]
        c3 == (c4 % base) * Limb + v[3]
        c2 == (c3 % base) * Limb + v[2]
        c1 == (c2 % base) * Limb + v[1]
    IN  [quot |-> <<c1 \div base, c2 \div base, c3 \div base, c4 \div base>>,
         rem |-> c1 % base]

\* How many digits of a base are taken off a u64 in one division.
Group(base) == IF base = 2 THEN 15 ELSE IF base = 8 THEN 5 ELSE IF base = 16 THEN 3 ELSE 4

RECURSIVE Groups(_, _)
\* A u64 written in the base m, the most significant place first.
Groups(v, m) ==
    IF v = Zero64 THEN <<>>
    ELSE Append(Groups(DivMod(v, m).quot, m), DivMod(v, m).rem)

\* The digits of the groups g of n digits each.
Spread(g, base, n) ==
    [i \in 1..(n * Len(g)) |->
        (g[(i - 1) \div n + 1] \div (base ^ (n - 1 - ((i - 1) % n)))) % base]

Significant(d) ==
    IF \A i \in 1..Len(d) : d[i] = 0 THEN <<>>
    ELSE SubSeq(d, CHOOSE i \in 1..Len(d) : d[i] # 0 /\ \A j \in 1..(i - 1) : d[j] = 0,
                Len(d))

\* The digits of a u64 written in a base, without leading zeros.
Render(v, base) ==
    Significant(Spread(Groups(v, base ^ Group(base)), base, Group(base)))

\* The suffix an integer token is written with, by name.
SuffixName(x) ==
    IF x = <<>> THEN "None"
    ELSE IntSuffixes[CHOOSE i \in 1..Len(IntSuffixes) : IntSuffixes[i][1] = x][2]

-----------------------------------------------------------------------------
(* Properties *)

\* The literal tokens of the buffer that were classified and kept.
Kept == {j \in 1..Len(lits) : input[j].kind = "Literal"}

\* C1: emitting the literal that Lit::new made of a token text T gives
\* one literal token with the text T and the span of the token, for every
\* variant but Bool; for T = true or false it gives the word true or false.
C1_RoundTrip ==
    /\ Len(tokens) <= Len(lits)
    /\ \A j \in Kept \cap 1..Len(tokens) :
        /\ lits[j].kind # "Bool" =>
              tokens[j] = Token("Literal", input[j].text, input[j].span)
        /\ input[j].text \in {TRUE_TEXT, FALSE_TEXT} =>
              tokens[j] = Token("Term", input[j].text, input[j].span)

C1_Witness ==
    /\ Len(tokens) = 2
    /\ Kept = {1, 2}
    /\ lits[1].kind = "Bool"
    /\ lits[2].kind = "Int"

\* The test of the text of a number that decides for Float.
FloatTest(t) ==
    \/ \E i \in 1..Len(t) : t[i] = "."
    \/ /\ \E i \in 1..Len(t) : t[i] \in {"e", "E"}
       /\ BaseOf(t) # 16
       /\ ~(Len(t) >= 4 /\ SubSeq(t, Len(t) - 3, Len(t)) = <<"s", "i", "z", "e">>)

C3_Overflow ==
    /\ \A j \in Kept :
          IsIntegerToken(input[j].text) =>
              lits[j] = TokenLit(IF Exceeds64(input[j].text) THEN "Verbatim" ELSE "Int",
                                 input[j].text, input[j].span)
    /\ (res.tag = "Panic" /\ Cur.kind = "Literal") => ~IsIntegerToken(Cur.text)

C3_Witness ==
    /\ 1 \in Kept
    /\ IsIntegerToken(input[1].text)
    /\ BaseOf(input[1].text) = 8
    /\ contains(input[1].text, "u")
    /\ lits[1].kind = "Verbatim"

\* The kind that the first bytes of a text decide, for a text no digit begins.
ShapeOf(t) ==
    IF t = <<>> THEN "Unrecognized"
    ELSE IF t[1] \in {QUOTE, "r"} THEN "Str"
    ELSE IF t[1] = APOS THEN "Char"
    ELSE IF t[1] = "b" /\ Len(t) >= 2 /\ t[2] \in {QUOTE, "r"} THEN "ByteStr"
    ELSE IF t[1] = "b" /\ Len(t) >= 2 /\ t[2] = APOS THEN "Byte"
    ELSE IF t \in {TRUE_TEXT, FALSE_TEXT} THEN "Bool"
    ELSE "Unrecognized"

\* C4: the first bytes alone decide the kind of a text that no digit
\* begins: '"' or r is Str, b then '"' or r is ByteStr, b then ' is Byte,
\* ' is Char, the texts true and false are Bool, and every other text, the
\* empty one and b before any other byte among them, is the panic
\* "Unrecognized literal".
C4_LeadingBytes ==
    /\ \A j \in Kept :
          ~DigitLed(input[j].text) => lits[j].kind = ShapeOf(input[j].text)
    /\ (res.tag = "Panic" /\ ~DigitLed(Cur.text)) =>
          /\ ShapeOf(Cur.text) = "Unrecognized"
          /\ res.msg = "Unrecognized literal"
    /\ (res.tag = "Ok" /\ AtCursor /\ Cur.kind = "Literal" /\ ~DigitLed(Cur.text)) =>
          res.lit.kind = ShapeOf(Cur.text)
    /\ (res.tag = "Err" /\ AtCursor /\ Cur.kind = "Literal" /\ ~DigitLed(Cur.text)) =>
          ShapeOf(Cur.text) # "Unrecognized"

C4_Witness ==
    /\ res.tag = "Panic"
    /\ Len(Cur.text) = 2
    /\ Cur.text[1] = "b"
    /\ Cur.text[2] = "1"

\* Decimal digits and then f32 or f64, with no '.' and no exponent.
IsSuffixedDigits(t) ==
    /\ DigitLed(t)
    /\ \E n \in 1..Len(t) :
          /\ \A i \in 1..n : IsDigitOf(t[i], 10)
          /\ SubSeq(t, n + 1, Len(t)) \in FloatSuffixTexts

\* C5: decimal digits with the suffix f32 or f64 and neither '.' nor
\* exponent, such as 1f64, are classified Float.
C5_SuffixedFloat ==
    \A j \in Kept : IsSuffixedDigits(input[j].text) => lits[j].kind = "Float"

\* A text that fits none of the shapes Lit::new knows.
Unrecognized(t) == ~DigitLed(t) /\ ShapeOf(t) = "Unrecognized"

\* A binary or octal text that goes to the integer decoder and has, among
\* its leading digits and '_', a decimal digit the base does not have, with
\* the digits before it within 64 bits.
OutOfBase(t) ==
    /\ DigitLed(t)
    /\ ~FloatTest(t)
    /\ BaseOf(t) \in {2, 8}
    /\ \E i \in 1..Len(AfterPrefix(t)) :
          /\ IsDigitOf(AfterPrefix(t)[i], 10)
          /\ ~IsDigitOf(AfterPrefix(t)[i], BaseOf(t))
          /\ \A j \in 1..(i - 1) : IsDigitOf(AfterPrefix(t)[j], BaseOf(t)) \/ AfterPrefix(t)[j] = "_"
          /\ ~Greater(DigitsOf(SubSeq(AfterPrefix(t), 1, i - 1)), MaxDigits(BaseOf(t)))

\* A cooked string with a piece that breaks the grammar: a malformed escape,
\* a byte that is no hex digit after \x or \u, or a CR that no LF follows.
Broken(t) ==
    \E a \in StrStarts, p \in BadPieces, z \in StrEnds : t = <<QUOTE>> \o a \o p \o z

\* A result that was computed from the literal token under the cursor.
OnLiteral == res # Idle /\ AtCursor /\ Cur.kind = "Literal"

\* An answer of value() on a literal made of a broken string.
OnBroken ==
    /\ ans.op = "value"
    /\ input[ans.of].kind = "Literal"
    /\ lits[ans.of].kind = "Str"
    /\ Broken(input[ans.of].text)

Owed(buf, c, r) ==
    IF c < Len(buf) /\ buf[c + 1].kind = "Literal"
    THEN \/ r.tag = "Panic" /\ Lit_new(buf[c + 1].text, buf[c + 1].span).tag = "Panic"
         \/ /\ r.tag = "Ok"
            /\ r.rest = c + 1
            /\ Made(r.lit) = Lit_new(buf[c + 1].text, buf[c + 1].span)
    ELSE IF c < Len(buf) /\ buf[c + 1].kind = "Term" /\ buf[c + 1].text \in {TRUE_TEXT, FALSE_TEXT}
    THEN r = Ok(LitBool(buf[c + 1].text = TRUE_TEXT, buf[c + 1].span), c + 1)
    ELSE r = parse_error

\* C7: the parser of Lit returns the classification of a literal token with
\* the rest cursor; else, on the word true or false, the Bool of that value
\* with the rest cursor; and on any other word, any other token and the end
\* of the input it fails with the no-match result; the caller's cursor is
\* where it was before the attempt.
C7_LitParse ==
    [][(~panicked /\ res.tag \in {"Idle", "Err"} /\ res' = Parser("Lit", input, pos)) =>
          (Owed(input, pos, res') /\ pos' = pos)]_vars

C7_Witness ==
    /\ pos = 1
    /\ res = parse_error
    /\ Len(input) = 2
    /\ input[2].kind = "Term"
    /\ input[2].text \notin {TRUE_TEXT, FALSE_TEXT}

\* The largest value of the integer types narrower than u64, as a u64.
SuffixMax(x) ==
    IF x = <<"u", "8">> THEN <<255, 0, 0, 0>>
    ELSE IF x = <<"i", "8">> THEN <<127, 0, 0, 0>>
    ELSE IF x = <<"u", "1", "6">> THEN <<65535, 0, 0, 0>>
    ELSE IF x = <<"i", "1", "6">> THEN <<32767, 0, 0, 0>>
    ELSE IF x = <<"u", "3", "2">> THEN <<65535, 65535, 0, 0>>
    ELSE IF x = <<"i", "3", "2">> THEN <<65535, 32767, 0, 0>>
    ELSE IF x = <<"i", "6", "4">> THEN <<65535, 65535, 65535, 32767>>
    ELSE <<65535, 65535, 65535, 65535>>

\* An integer token whose value fits 64 bits and not the type of its suffix.
OverRange(t) ==
    /\ IsIntegerToken(t)
    /\ SuffixOf(t) # <<>>
    /\ ~Exceeds64(t)
    /\ Greater(DigitsOf(BodyOf(t)), Render(SuffixMax(SuffixOf(t)), BaseOf(t)))

\* C8 as the specification states it: an integer token whose value fits
\* 64 bits and exceeds the range of its suffix (256u8) is classified
\* Verbatim, and no violation of the range is reported.
C8_OverRangeVerbatim ==
    /\ \A j \in Kept : OverRange(input[j].text) => lits[j].kind = "Verbatim"
    /\ (OnLiteral /\ OverRange(Cur.text)) => res.tag # "Panic"

\* C8: an integer token whose value fits 64 bits and exceeds the range of
\* its suffix (256u8) is classified Int with its text unchanged, value()
\* returns the value and suffix() the suffix, and no violation of the range
\* is reported: the parsers do not panic on it.
C8_OverRangeInt ==
    /\ \A j \in Kept :
          OverRange(input[j].text) =>
              /\ lits[j] = TokenLit("Int", input[j].text, input[j].span)
              /\ (ans.of = j /\ ans.op = "value") =>
                    /\ ans.tag = "Val"
                    /\ Greater(Render(ans.val, BaseOf(input[j].text)),
                               Render(SuffixMax(SuffixOf(input[j].text)), BaseOf(input[j].text)))
              /\ (ans.of = j /\ ans.op = "suffix") =>
                    ans.val = SuffixName(SuffixOf(input[j].text))
    /\ (OnLiteral /\ OverRange(Cur.text)) =>
          \/ res.tag = "Ok" /\ res.lit.kind = "Int"
          \/ res = parse_error

C8_Witness ==
    /\ 1 \in Kept
    /\ input[1].text = <<"2", "5", "6", "u", "8">>
    /\ lits[1].kind = "Int"
    /\ ans.of = 1
    /\ ans.op = "value"
    /\ ans.val = <<256, 0, 0, 0>>

\* f32, f64 or None by the tail of a text.
FloatTail(t) ==
    IF Len(t) >= 3 /\ SubSeq(t, Len(t) - 2, Len(t)) = <<"f", "3", "2">> THEN "F32"
    ELSE IF Len(t) >= 3 /\ SubSeq(t, Len(t) - 2, Len(t)) = <<"f", "6", "4">> THEN "F64"
    ELSE "None"

\* What C9 says of the integer tokens among those of IsWanted, and of the
\* Float literals.
ValueSuffix(IsWanted(_)) ==
    \A j \in Kept :
        /\ (IsIntegerToken(input[j].text) /\ IsWanted(input[j].text)) =>
              /\ lits[j].kind = "Int"
              /\ (ans.of = j /\ ans.op = "suffix") =>
                    ans.val = SuffixName(SuffixOf(input[j].text))
              /\ (ans.of = j /\ ans.op = "value") =>
                    /\ ans.tag = "Val"
                    /\ Render(ans.val, BaseOf(input[j].text)) = DigitsOf(BodyOf(input[j].text))
        /\ (lits[j].kind = "Float" /\ ans.of = j /\ ans.op = "suffix") =>
              ans.val = FloatTail(input[j].text)

Fits64(t) == ~Exceeds64(t)

EveryToken(t) == TRUE

\* C9 as the specification states it: every integer token made of digits of
\* its base and one of the twelve integer suffixes or none is classified
\* Int, suffix() returns that suffix and value() the number of the digits.
C9_EveryIntegerToken == ValueSuffix(EveryToken)

\* C9: an integer token made of digits of its base and one of the twelve
\* integer suffixes or none, whose magnitude is at most 2^64 - 1, is
\* classified Int, suffix() returns exactly that suffix (None without one)
\* and value() the number the digits denote; suffix() of a Float literal
\* is f32 or f64 by the tail of its text, and None otherwise.
C9_ValueSuffix == ValueSuffix(Fits64)

C9_Witness ==
    /\ 1 \in Kept
    /\ input[1].text = <<"0", "x", "1", "_", "0">>
    /\ lits[1].kind = "Int"
    /\ ans.of = 1
    /\ ans.op = "value"
    /\ ans.val = <<16, 0, 0, 0>>

\* The boolean a text of a Bool literal spells.
Spelt(tok) == tok.text = TRUE_TEXT

\* C10: == on two literals of one variant other than Bool holds exactly
\* when the texts of their tokens are the same, whatever their spans and
\* whatever values the texts denote (16 and 0x10 are not equal), and the
\* hash is fed the text alone; two Bool literals are equal exactly when
\* their values are.
C10_EqByText ==
    ans.op = "eq" =>
        /\ lits[1].kind = lits[2].kind
        /\ lits[1].kind # "Bool" =>
              /\ ans.val.eq <=> (input[1].text = input[2].text)
              /\ ans.val.hash = <<input[1].text, input[2].text>>
        /\ lits[1].kind = "Bool" =>
              /\ ans.val.eq <=> (Spelt(input[1]) <=> Spelt(input[2]))
              /\ (ans.val.hash[1] = ans.val.hash[2]) <=> ans.val.eq

C10_Witness ==
    /\ ans.op = "eq"
    /\ input[1].text = <<"1", "6">>
    /\ input[2].text = <<"0", "x", "1", "0">>
    /\ LitInt_value(lits[1]) = LitInt_value(lits[2])
    /\ ~ans.val.eq

-----------------------------------------------------------------------------
(* LitInt::new *)

\* The bits of the type a suffix names (isize and usize of a 64-bit
\* target); None goes through i64.
Width ==
    [I8 |-> 8, I16 |-> 16, I32 |-> 32, I64 |-> 64, Isize |-> 64,
     U8 |-> 8, U16 |-> 16, U32 |-> 32, U64 |-> 64, Usize |-> 64, None |-> 64]

Signed == {"I8", "I16", "I32", "I64", "Isize", "None"}

\* value as uN: the low bits of the value.
Low(v, bits) ==
    IF bits = 8 THEN <<v[1] % 256, 0, 0, 0>>
    ELSE IF bits = 16 THEN <<v[1], 0, 0, 0>>
    ELSE IF bits = 32 THEN <<v[1], v[2], 0, 0>>
    ELSE v

\* The sign bit of a value of that many bits.
IsNegative(x, bits) ==
    IF bits = 8 THEN x[1] >= 128 ELSE x[bits \div 16] >= 32768

\* 2^bits - x, the magnitude of a negative value, for x # 0.
Magnitude(x, bits) ==
    IF bits = 8 THEN <<256 - x[1], 0, 0, 0>>
    ELSE LET n == bits \div 16
             inv == [i \in 1..4 |-> IF i <= n THEN Limb - 1 - x[i] ELSE 0]
             c1 == inv[1] + 1
             c2 == inv[2] + (IF n >= 2 THEN c1 \div Limb ELSE 0)
             c3 == inv[3] + (IF n >= 3 THEN c2 \div Limb ELSE 0)
             c4 == inv[4] + (IF n >= 4 THEN c3 \div Limb ELSE 0)
         IN  <<c1 % Limb, c2 % Limb, c3 % Limb, c4 % Limb>>

\* u64 as Display writes it.
Decimal(v) ==
    IF v = Zero64 THEN <<"0">>
    ELSE [i \in 1..Len(Render(v, 10)) |-> DecDigits[Render(v, 10)[i] + 1]]

\* Display of the value cast to the type of that many bits.
CastText(x, bits, signed) ==
    IF signed /\ IsNegative(x, bits) THEN <<"-">> \o Decimal(Magnitude(x, bits))
    ELSE Decimal(x)

\* The text a suffix is written with.
SuffixText(suffix) ==
    IF suffix = "None" THEN <<>>
    ELSE IntSuffixes[CHOOSE i \in 1..Len(IntSuffixes) : IntSuffixes[i][2] = suffix][1]

\* The token of LitInt::new: Literal::i8(value as i8) and the like write
\* the cast value and the suffix, Literal::integer(value as i64) the cast
\* value alone, and the 128-bit suffixes follow the u64 as it is.
new_token(value, suffix) ==
    IF suffix \in {"I128", "U128"} THEN Decimal(value) \o SuffixText(suffix)
    ELSE CastText(Low(value, Width[suffix]), Width[suffix], suffix \in Signed)
         \o SuffixText(suffix)

LitInt_new(value, suffix, span) == TokenLit("Int", new_token(value, suffix), span)

-----------------------------------------------------------------------------
(* The decoders and LitInt::new on their own: the texts *)

MaxSpace == 3

\* The digits between the braces of a \u escape.
UDigits ==
    { <<>>, <<"a">>, <<"A">>, <<"0">>, <<"7", "f">>, <<"0", "0", "0", "0", "0", "0">>,
      <<"d", "7", "f", "f">>, <<"d", "8", "0", "0">>, <<"d", "f", "f", "f">>,
      <<"e", "0", "0", "0">>, <<"1", "0", "f", "f", "f", "f">>, <<"1", "0", "F", "F", "F", "F">>,
      <<"1", "1", "0", "0", "0", "0">>, <<"f", "f", "f", "f", "f", "f">>,
      <<"0", "0", "0", "0", "0", "0", "0">>, <<"1", "2", "3", "4", "5", "6", "7">>,
      <<"g">>, <<"a", "g">>, <<"a", "_">> }

\* \u{d}, \u{d without the closing brace, \ud} without the opening one.
UPieces ==
    {<<BSLASH, "u">> \o open \o d \o close :
        open \in {<<"{">>, <<>>}, d \in UDigits, close \in {<<"}">>, <<>>}}

XDigits == {"0", "7", "8", "9", "a", "f", "A", "F"}

XPieces == {<<BSLASH, "x", h1, h2>> : h1 \in XDigits, h2 \in XDigits}

Breaks == {<<LF>>, <<CR>>, <<CR, LF>>}

Spaces == SeqsUpTo({" ", TAB, LF, CR}, MaxSpace)

\* A backslash, a line break and white space.
ContPieces == {<<BSLASH>> \o k \o w : k \in Breaks, w \in Spaces}

Fronts == {<<>>, <<"a">>}

Backs == {<<>>, <<"b">>, <<BSLASH, "n">>}

\* A piece between quotes, with or without text before and after it.
Quoted(pieces) ==
    {<<QUOTE>> \o a \o p \o z \o <<QUOTE>> : a \in Fronts, p \in pieces, z \in Backs}

StrPieces == UPieces \cup XPieces \cup ContPieces

BytePieces == XPieces \cup ContPieces \cup {<<BSLASH, "u", "{", "a", "}">>}

CharPieces == UPieces \cup XPieces \cup {<<"a">>, <<BSLASH, "n">>, <<>>, <<"a", "b">>}

DecodeTexts ==
    NumTexts
    \cup Quoted(StrPieces)
    \cup {<<"b">> \o t : t \in Quoted(BytePieces)}
    \cup {<<APOS>> \o p \o <<APOS>> : p \in CharPieces}
    \cup {<<"b", APOS>> \o p \o z : p \in XPieces \cup {<<"a">>, <<BSLASH, "n">>, <<>>},
                                   z \in {<<APOS>>, <<>>, <<APOS, "a">>}}
    \cup RawTexts
    \cup {<<"b">> \o t : t \in RawTexts}

\* The values LitInt::new is given: about each power of two a cast cuts at.
BuildValues ==
    { Zero64, <<1, 0, 0, 0>>, <<127, 0, 0, 0>>, <<128, 0, 0, 0>>, <<255, 0, 0, 0>>,
      <<256, 0, 0, 0>>, <<32767, 0, 0, 0>>, <<32768, 0, 0, 0>>, <<65535, 0, 0, 0>>,
      <<0, 1, 0, 0>>, <<65535, 32767, 0, 0>>, <<0, 32768, 0, 0>>, <<65535, 65535, 0, 0>>,
      <<0, 0, 1, 0>>, <<65535, 65535, 65535, 32767>>, <<0, 0, 0, 32768>>,
      <<65535, 65535, 65535, 65535>> }

SuffixNames == {IntSuffixes[i][2] : i \in 1..Len(IntSuffixes)} \cup {"None"}

-----------------------------------------------------------------------------
(* The decoders and LitInt::new on their own: the state machine *)

Decoders ==
    {"parse_lit_int", "parse_lit_str", "parse_lit_byte_str", "parse_lit_byte", "parse_lit_char"}

\* The result of a decoder as an answer.
Decoded(f, r) ==
    [op |-> f, of |-> 1, tag |-> r.tag,
     val |-> IF r.tag = "Panic" THEN r.msg
             ELSE IF r.tag = "Some" THEN r.value
             ELSE IF r.tag = "None" THEN 0
             ELSE r.val]

Apply(f, s) ==
    IF f = "parse_lit_int" THEN parse_lit_int(s)
    ELSE IF f = "parse_lit_str" THEN parse_lit_str(s)
    ELSE IF f = "parse_lit_byte_str" THEN parse_lit_byte_str(s)
    ELSE IF f = "parse_lit_byte" THEN parse_lit_byte(s)
    ELSE parse_lit_char(s)

DecodeInit ==
    /\ input \in {<<>>} \cup {<<Token("Literal", t, 1)>> : t \in DecodeTexts}
    /\ pos = 0
    /\ res = Idle
    /\ lits = <<>>
    /\ tokens = <<>>
    /\ ans = NoAnswer
    /\ panicked = FALSE

\* A decoder on the text of the token.
Call(f) ==
    /\ ~panicked
    /\ input # <<>>
    /\ ans = NoAnswer
    /\ ans' = Decoded(f, Apply(f, input[1].text))
    /\ panicked' = (ans'.tag = "Panic")
    /\ UNCHANGED <<input, pos, res, lits, tokens>>

\* LitInt::new(value, suffix, span); res keeps what it was given.
Build(value, suffix) ==
    /\ input = <<>>
    /\ lits = <<>>
    /\ lits' = <<LitInt_new(value, suffix, 1)>>
    /\ res' = [tag |-> "Built", value |-> value, suffix |-> suffix]
    /\ UNCHANGED <<input, pos, tokens, ans, panicked>>

DecodeNext ==
    \/ \E f \in Decoders : Call(f)
    \/ \E v \in BuildValues, x \in SuffixNames : Build(v, x)
    \/ \E op \in {"value", "suffix"} : Query(1, op)

DecodeSpec == DecodeInit /\ [][DecodeNext]_vars

-----------------------------------------------------------------------------
(* Properties of the decoders *)

\* The text a decoder was called on.
Text == input[1].text

\* The byte the integer decoder stops at: the first that is neither a
\* digit of the base nor '_', NUL at the end of the text.
StopByte(t) == IF SuffixOf(t) = <<>> THEN NUL ELSE SuffixOf(t)[1]

\* A text that a digit begins and whose digits are all within its base.
InBase(t) == DigitLed(t) /\ ~IsDigitOf(StopByte(t), 10)

\* C11: on a text that a digit begins and whose digits are within the
\* base, parse_lit_int returns the number that the digits before the first
\* byte that is no digit denote in the base of the prefix (0x 16, 0o 8,
\* 0b 2, else 10), every '_' ignored; it returns None exactly when that
\* number exceeds 2^64 - 1 or when, in base 10, the first byte that is no
\* digit is '.', 'e' or 'E'.
C11_ParseInt ==
    (ans.op = "parse_lit_int" /\ InBase(Text)) =>
        IF \/ Exceeds64(Text)
           \/ BaseOf(Text) = 10 /\ StopByte(Text) \in {".", "e", "E"}
        THEN ans.tag = "None"
        ELSE /\ ans.tag = "Some"
             /\ Render(ans.val, BaseOf(Text)) = DigitsOf(BodyOf(Text))

C11_Witness ==
    /\ ans.op = "parse_lit_int"
    /\ Text = <<"0", "x", "_", "1", "_", "0">>
    /\ ans.tag = "Some"
    /\ ans.val = <<16, 0, 0, 0>>

RECURSIVE HexValue(_)
\* The number that hex digits denote.
HexValue(d) ==
    IF d = <<>> THEN 0
    ELSE 16 * HexValue(SubSeq(d, 1, Len(d) - 1)) + Denotes(d[Len(d)])

AllHex(d) == \A i \in 1..Len(d) : IsDigitOf(d[i], 16)

\* A Unicode scalar value: at most 0x10FFFF and no surrogate.
ScalarValue(n) == n <= 1114111 /\ (n < 55296 \/ n > 57343)

\* A \u escape with both braces, lo to 6 hex digits and a scalar value.
WellFormedU(open, d, close, lo) ==
    /\ open = <<"{">>
    /\ close = <<"}">>
    /\ Len(d) >= lo
    /\ Len(d) <= 6
    /\ AllHex(d)
    /\ ScalarValue(HexValue(d))

\* What the text before or after a piece adds to the value.
PlainValue(x) ==
    IF x = <<>> THEN <<>> ELSE IF x = <<BSLASH, "n">> THEN <<10>> ELSE <<Ord[x[1]]>>

\* What C12 says of the \u escapes of strings and characters, with at
\* least lo digits asked for.
UnicodeEscape(lo) ==
    \A open \in {<<"{">>, <<>>}, d \in UDigits, close \in {<<"}">>, <<>>} :
        /\ \A a \in Fronts, z \in Backs :
              (/\ ans.op = "parse_lit_str"
               /\ Text = <<QUOTE>> \o a \o <<BSLASH, "u">> \o open \o d \o close \o z \o <<QUOTE>>) =>
                  IF WellFormedU(open, d, close, lo)
                  THEN /\ ans.tag = "Val"
                       /\ ans.val = PlainValue(a) \o <<HexValue(d)>> \o PlainValue(z)
                  ELSE ans.tag = "Panic"
        /\ (/\ ans.op = "parse_lit_char"
            /\ Text = <<APOS, BSLASH, "u">> \o open \o d \o close \o <<APOS>>) =>
               IF WellFormedU(open, d, close, lo)
               THEN ans.tag = "Val" /\ ans.val = HexValue(d)
               ELSE ans.tag = "Panic"

\* C12: in the decoding of cooked strings and of characters a \u escape
\* is accepted only with between 1 and 6 hex digits in braces that make a
\* Unicode scalar value, and decodes to it; with no digit, more than six,
\* a byte that is no hex digit, a missing brace, a surrogate or a value
\* above 0x10FFFF the decoding fails.
C12_UnicodeEscape == UnicodeEscape(1)

\* The body of a cooked text with a line continuation, and its value.
Continued ==
    {<<a \o <<BSLASH>> \o k \o w \o z \o <<QUOTE>>, PlainValue(a) \o PlainValue(z)>> :
        a \in Fronts, k \in Breaks, w \in Spaces, z \in Backs}

\* C13: in the decoding of cooked strings and byte strings a backslash
\* before a line break (LF or CR) adds nothing to the value, the white
\* space that follows is dropped up to the first character that is none,
\* and the decoding goes on there: "a\<LF><3 spaces>b" decodes to ab.
C13_Continuation ==
    /\ ans.op = "parse_lit_str" =>
          \A c \in Continued :
              Text = <<QUOTE>> \o c[1] => ans.tag = "Val" /\ ans.val = c[2]
    /\ ans.op = "parse_lit_byte_str" =>
          \A c \in Continued :
              Text = <<"b", QUOTE>> \o c[1] => ans.tag = "Val" /\ ans.val = c[2]

C13_Witness ==
    /\ ans.op = "parse_lit_str"
    /\ Text = <<QUOTE, "a", BSLASH, LF, " ", " ", " ", "b", QUOTE>>
    /\ ans.val = <<97, 98>>

\* The number of '#' in t from the place p on.
Hashes(t, p) ==
    CHOOSE n \in 0..Len(t) :
        /\ \A i \in p..(p + n - 1) : i <= Len(t) /\ t[i] = "#"
        /\ p + n > Len(t) \/ t[p + n] # "#"

\* A text made of a prefix of p bytes, n hash marks, a quote, a body, a
\* quote and n hash marks.
Balanced(t, p) ==
    /\ Len(t) >= p + 2 * Hashes(t, p + 1) + 2
    /\ t[p + Hashes(t, p + 1) + 1] = QUOTE
    /\ t[Len(t) - Hashes(t, p + 1)] = QUOTE
    /\ \A i \in (Len(t) - Hashes(t, p + 1) + 1)..Len(t) : t[i] = "#"

\* The body of such a text.
RawBody(t, p) == SubSeq(t, p + Hashes(t, p + 1) + 2, Len(t) - Hashes(t, p + 1) - 1)

\* The bytes of a text as they are written.
Verbatim(b) == [i \in 1..Len(b) |-> Ord[b[i]]]

\* What the raw decoder owes on a text after a prefix of p bytes.
RawOwed(t, p) ==
    IF Balanced(t, p)
    THEN ans.tag = "Val" /\ ans.val = Verbatim(RawBody(t, p))
    ELSE ans.tag = "Panic"

\* C14: the decoding of a raw string r, n hash marks, a quote, a body, a
\* quote and n hash marks (and of the byte string br...) returns the body
\* as it is written, quotes and backslashes in it included (r##"a"b"##
\* gives a"b); a text whose closing quote or hash marks do not balance the
\* opening ones is rejected with a panic.
C14_Raw ==
    /\ (ans.op = "parse_lit_str" /\ byte(Text, 0) = "r") => RawOwed(Text, 1)
    /\ (ans.op = "parse_lit_byte_str" /\ byte(Text, 0) = "b" /\ byte(Text, 1) = "r") =>
          RawOwed(Text, 2)

C14_Witness ==
    /\ ans.op = "parse_lit_str"
    /\ Text = <<"r", "#", "#", QUOTE, "a", QUOTE, "b", QUOTE, "#", "#">>
    /\ ans.val = <<97, 34, 98>>

\* The byte that the hex digits h1 h2 denote.
XByte(h1, h2) == 16 * Denotes(h1) + Denotes(h2)

\* The body of a cooked text with a \x escape, what stands before the
\* escape, the byte of the escape and what stands after it.
Escaped ==
    {<<a \o <<BSLASH, "x", h1, h2>> \o z \o <<QUOTE>>, PlainValue(a), XByte(h1, h2), PlainValue(z)>> :
        a \in Fronts, h1 \in XDigits, h2 \in XDigits, z \in Backs}

\* C15: the escape \xNN decodes to the byte 16 * N1 + N2, with hex digits
\* of either case. In a string and in a character it is accepted only
\* when the byte is at most 0x80, and the decoding fails with a panic
\* otherwise; in a byte string and in a byte every value 0..255 is
\* accepted.
C15_HexEscape ==
    /\ ans.op = "parse_lit_str" =>
          \A c \in Escaped :
              Text = <<QUOTE>> \o c[1] =>
                  IF c[3] <= 128
                  THEN ans.tag = "Val" /\ ans.val = c[2] \o <<c[3]>> \o c[4]
                  ELSE ans.tag = "Panic"
    /\ ans.op = "parse_lit_byte_str" =>
          \A c \in Escaped :
              Text = <<"b", QUOTE>> \o c[1] =>
                  ans.tag = "Val" /\ ans.val = c[2] \o <<c[3]>> \o c[4]
    /\ ans.op = "parse_lit_char" =>
          \A h1 \in XDigits, h2 \in XDigits :
              Text = <<APOS, BSLASH, "x", h1, h2, APOS>> =>
                  IF XByte(h1, h2) <= 128
                  THEN ans.tag = "Val" /\ ans.val = XByte(h1, h2)
                  ELSE ans.tag = "Panic"
    /\ ans.op = "parse_lit_byte" =>
          \A h1 \in XDigits, h2 \in XDigits :
              Text = <<"b", APOS, BSLASH, "x", h1, h2, APOS>> =>
                  ans.tag = "Val" /\ ans.val = XByte(h1, h2)

C15_Witness ==
    /\ ans.op = "parse_lit_byte"
    /\ Text = <<"b", APOS, BSLASH, "x", "F", "a", APOS>>
    /\ ans.val = 250

\* C16: for every u64 value and every integer suffix, None included, the
\* literal that LitInt::new builds decodes back to what it was built
\* from: value() answers the value, suffix() the suffix, and neither
\* fails.
C16_NewRoundTrip ==
    (res.tag = "Built" /\ ans.of = 1) =>
        /\ ans.op = "value" => ans.tag = "Val" /\ ans.val = res.value
        /\ ans.op = "suffix" => ans.tag = "Val" /\ ans.val = res.suffix

====
